---- MODULE Spec2Model ----
(***************************************************************************)
(* A model of src/soft_str.rs: SoftAsciiStr, the borrowed str wrapper with *)
(* the "is us-ascii" soft constraint, its constructors, its wrapping       *)
(* methods, its iterator adapters and its PartialEq impls.                 *)
(*                                                                         *)
(* A text is the sequence of its UTF-8 bytes (integers 0..255).  The       *)
(* caller owns one native buffer `text` and holds at most one wrapper      *)
(* handle on it (`view`), the value returned by the last call (`res`) and  *)
(* at most one live iterator (`it`).                                       *)
(***************************************************************************)
EXTENDS Integers, Sequences, FiniteSets, TLC

VARIABLES text, view, res, it

vars == <<text, view, res, it>>

\* ---------------------------------------------------------------- bounds

\* Longest generated text, in code points.
MaxLen == 2

\* Largest argument of repeat.
MaxRepeat == 2

\* ------------------------------------------------------ native text (str)

\* The code points generated texts are made of: '\n', ' ', 'i', U+00E9.
Alphabet == {10, 32, 105, 233}

\* char::encode_utf8, for code points below U+10000.
Utf8(cp) ==
    IF cp < 128 THEN <<cp>>
    ELSE IF cp < 2048 THEN <<192 + (cp \div 64), 128 + (cp % 64)>>
    ELSE <<224 + (cp \div 4096), 128 + ((cp \div 64) % 64), 128 + (cp % 64)>>

RECURSIVE EncodeAll(_)
EncodeAll(cps) ==
    IF cps = <<>> THEN <<>> ELSE Utf8(Head(cps)) \o EncodeAll(Tail(cps))

\* The texts of the repository's tests and of its documentation's examples:
\* "hy ho\0\1\2\3", U+2193, U+2764 " == <3", "hy", "a\nb\nc",
\* "h" U+00E9 "llo", "a\r\nB\n", U+00A0 "a ".
Examples ==
    { EncodeAll(<<104, 121, 32, 104, 111, 0, 1, 2, 3>>),
      EncodeAll(<<8595>>),
      EncodeAll(<<10084, 32, 61, 61, 32, 60, 51>>),
      EncodeAll(<<104, 121>>),
      EncodeAll(<<97, 10, 98, 10, 99>>),
      EncodeAll(<<104, 233, 108, 108, 111>>),
      EncodeAll(<<97, 13, 10, 66, 10>>),
      EncodeAll(<<160, 97, 32>>) }

\* The texts a view is compared with, besides one of its own content:
\* "", "i", "I", U+00E9, "hy", "h" U+00E9 "llo".
PeerTexts ==
    { <<>>, <<105>>, <<73>>, Utf8(233), <<104, 121>>,
      EncodeAll(<<104, 233, 108, 108, 111>>) }

\* Every value a &str of the model can have: valid UTF-8 by construction.
Texts ==
    {EncodeAll(s) : s \in UNION {[1..n -> Alphabet] : n \in 0..MaxLen}}
        \cup Examples

\* The (range-checked) sub-slice s[a..b] of byte offsets.
Slice(s, a, b) == SubSeq(s, a + 1, b)

\* A check for printable US-ASCII only, which rejects control characters.
is_ascii_printable(s) == \A i \in 1..Len(s) : s[i] \in 32..126

\* str::is_ascii: no byte has its high bit set.
is_ascii(s) == \A i \in 1..Len(s) : s[i] < 128

\* str::is_char_boundary: the ends, or a byte that is no continuation byte.
is_char_boundary(s, index) ==
    \/ index = 0
    \/ index = Len(s)
    \/ /\ index < Len(s)
       /\ (s[index + 1] < 128 \/ s[index + 1] >= 192)


\* The width in bytes of the code point whose leading byte is b.
utf8_char_width(b) ==
    IF b < 128 THEN 1 ELSE IF b < 224 THEN 2 ELSE IF b < 240 THEN 3 ELSE 4

\* The code point that starts at byte offset i of s (next_code_point).
CodePointAt(s, i) ==
    LET b == s[i + 1]
    IN  IF b < 128 THEN b
        ELSE IF b < 224 THEN (b - 192) * 64 + (s[i + 2] - 128)
        ELSE IF b < 240
             THEN (b - 224) * 4096 + (s[i + 2] - 128) * 64 + (s[i + 3] - 128)
        ELSE (b - 240) * 262144 + (s[i + 2] - 128) * 4096
                 + (s[i + 3] - 128) * 64 + (s[i + 4] - 128)

\* The offset at which the code point that ends just before offset j starts
\* (next_code_point_reverse): step back over the continuation bytes.
RECURSIVE PrevBoundary(_, _)
PrevBoundary(s, j) ==
    IF is_char_boundary(s, j - 1) THEN j - 1 ELSE PrevBoundary(s, j - 1)

\* char::is_whitespace: the code points with the White_Space property.
is_whitespace(cp) ==
    \/ cp \in 9..13
    \/ cp \in {32, 133, 160, 5760, 8232, 8233, 8239, 8287, 12288}
    \/ cp \in 8192..8202

\* char::to_lowercase / char::to_uppercase, as sequences of code points,
\* for the code points below U+0100 and the uncased ones of Examples.
char_to_lowercase(cp) ==
    IF cp \in 65..90 THEN <<cp + 32>>
    ELSE IF cp \in 192..222 /\ cp # 215 THEN <<cp + 32>>
    ELSE <<cp>>

\* An upper-casing that follows the Turkish locale: 'i' becomes U+0130.
char_to_uppercase_locale(cp) ==
    IF cp = 105 THEN <<304>>
    ELSE IF cp \in 97..122 THEN <<cp - 32>>
    ELSE <<cp>>

char_to_uppercase(cp) ==
    IF cp \in 97..122 THEN <<cp - 32>>
    ELSE IF cp \in 224..254 /\ cp # 247 THEN <<cp - 32>>
    ELSE IF cp = 223 THEN <<83, 83>>
    ELSE IF cp = 181 THEN <<924>>
    ELSE IF cp = 255 THEN <<376>>
    ELSE <<cp>>

\* str::to_lowercase / str::to_uppercase: map every char, re-encode.
RECURSIVE str_to_lowercase(_)
str_to_lowercase(s) ==
    IF s = <<>> THEN <<>>
    ELSE LET w == utf8_char_width(s[1])
         IN  EncodeAll(char_to_lowercase(CodePointAt(s, 0)))
                 \o str_to_lowercase(Slice(s, w, Len(s)))

RECURSIVE str_to_uppercase(_)
str_to_uppercase(s) ==
    IF s = <<>> THEN <<>>
    ELSE LET w == utf8_char_width(s[1])
         IN  EncodeAll(char_to_uppercase(CodePointAt(s, 0)))
                 \o str_to_uppercase(Slice(s, w, Len(s)))

\* str::repeat: n copies, one after the other.
RECURSIVE str_repeat(_, _)
str_repeat(s, n) == IF n = 0 THEN <<>> ELSE s \o str_repeat(s, n - 1)

\* The offset of the first char at or after i that is no whitespace, and
\* the offset after the last char before j that is none.
RECURSIVE TrimStartOffset(_, _)
TrimStartOffset(s, i) ==
    IF i < Len(s) /\ is_whitespace(CodePointAt(s, i))
    THEN TrimStartOffset(s, i + utf8_char_width(s[i + 1]))
    ELSE i

RECURSIVE TrimEndOffset(_, _, _)
TrimEndOffset(s, lo, j) ==
    IF j > lo /\ is_whitespace(CodePointAt(s, PrevBoundary(s, j)))
    THEN TrimEndOffset(s, lo, PrevBoundary(s, j))
    ELSE j

\* str::trim_start, str::trim_end, str::trim.
str_trim_start(s) == Slice(s, TrimStartOffset(s, 0), Len(s))

str_trim_end(s) == Slice(s, 0, TrimEndOffset(s, 0, Len(s)))

str_trim(s) ==
    LET i == TrimStartOffset(s, 0)
    IN  Slice(s, i, TrimEndOffset(s, i, Len(s)))

\* The abort of a native slicing operation (slice_error_fail): no value.
Panic == [tag |-> "panic"]

\* str::split_at.
str_split_at(s, mid) ==
    IF is_char_boundary(s, mid)
    THEN [tag |-> "pair", left |-> Slice(s, 0, mid), right |-> Slice(s, mid, Len(s))]
    ELSE Panic

\* <str as Index<Range<usize>>>::index and its RangeFrom / RangeTo forms.
str_index_range(s, start, end) ==
    IF start <= end /\ is_char_boundary(s, start) /\ is_char_boundary(s, end)
    THEN [tag |-> "str", bytes |-> Slice(s, start, end)]
    ELSE Panic

str_index_range_from(s, start) ==
    IF is_char_boundary(s, start)
    THEN [tag |-> "str", bytes |-> Slice(s, start, Len(s))]
    ELSE Panic

str_index_range_to(s, end) ==
    IF is_char_boundary(s, end)
    THEN [tag |-> "str", bytes |-> Slice(s, 0, end)]
    ELSE Panic

\* Option<T>.
Some(v) == [tag |-> "Some", val |-> v]

None == [tag |-> "None"]

SetMin(S) == CHOOSE x \in S : \A y \in S : x <= y

SetMax(S) == CHOOSE x \in S : \A y \in S : x >= y

\* str::Chars / str::CharIndices: the undecoded bytes are s[front..back].
str_chars(s) == [front |-> 0, back |-> Len(s)]

Chars_next(s, c) ==
    IF c.front = c.back
    THEN [item |-> None, idx |-> c.front, st |-> c]
    ELSE [item |-> Some(CodePointAt(s, c.front)),
          idx |-> c.front,
          st |-> [c EXCEPT !.front = c.front + utf8_char_width(s[c.front + 1])]]

Chars_next_back(s, c) ==
    IF c.front = c.back
    THEN [item |-> None, idx |-> c.back, st |-> c]
    ELSE LET p == PrevBoundary(s, c.back)
         IN  [item |-> Some(CodePointAt(s, p)),
              idx |-> p,
              st |-> [c EXCEPT !.back = p]]

\* The two patterns the adapters split on: '\n' (lines) and
\* char::is_whitespace (split_whitespace).
PatternMatches(pat, cp) ==
    IF pat = "newline" THEN cp = 10 ELSE is_whitespace(cp)

\* The offsets in s[lo..hi] at which a char matching the pattern starts.
MatchStarts(s, pat, lo, hi) ==
    {i \in lo..(hi - 1) :
        is_char_boundary(s, i) /\ PatternMatches(pat, CodePointAt(s, i))}

\* core::str::iter::SplitInternal: the unreturned rest is s[start..end], the
\* searcher still has s[finger..finger_back] to look at.
SplitInternal_new(s, allow) ==
    [start |-> 0, end |-> Len(s), finger |-> 0, finger_back |-> Len(s),
     finished |-> FALSE, allow_trailing_empty |-> allow]

\* SplitInternal::get_end.
SplitInternal_get_end(s, st) ==
    IF ~st.finished
    THEN LET st1 == [st EXCEPT !.finished = TRUE]
         IN  IF st.allow_trailing_empty \/ st.end - st.start > 0
             THEN [item |-> Some(Slice(s, st.start, st.end)), st |-> st1]
             ELSE [item |-> None, st |-> st1]
    ELSE [item |-> None, st |-> st]

\* SplitInternal::next (inclusive = FALSE) and ::next_inclusive (TRUE).
SplitInternal_next(s, pat, inclusive, st) ==
    IF st.finished THEN [item |-> None, st |-> st]
    ELSE LET m == MatchStarts(s, pat, st.finger, st.finger_back)
         IN  IF m # {}
             THEN LET a == SetMin(m)
                      b == a + utf8_char_width(s[a + 1])
                  IN  [item |-> Some(Slice(s, st.start, IF inclusive THEN b ELSE a)),
                       st |-> [st EXCEPT !.start = b, !.finger = b]]
             ELSE SplitInternal_get_end(s, [st EXCEPT !.finger = st.finger_back])

\* The search from the back of SplitInternal::next_back / next_back_inclusive.
SplitInternal_back_search(s, pat, inclusive, st) ==
    LET m == MatchStarts(s, pat, st.finger, st.finger_back)
    IN  IF m # {}
        THEN LET a == SetMax(m)
                 b == a + utf8_char_width(s[a + 1])
             IN  [item |-> Some(Slice(s, b, st.end)),
                  st |-> [st EXCEPT !.end = IF inclusive THEN b ELSE a,
                                    !.finger_back = a]]
        ELSE [item |-> Some(Slice(s, st.start, st.end)),
              st |-> [st EXCEPT !.finished = TRUE, !.finger_back = st.finger]]

\* SplitInternal::next_back (inclusive = FALSE) and ::next_back_inclusive.
SplitInternal_next_back(s, pat, inclusive, st) ==
    IF st.finished THEN [item |-> None, st |-> st]
    ELSE IF ~st.allow_trailing_empty
    THEN LET r == SplitInternal_back_search(s, pat, inclusive,
                      [st EXCEPT !.allow_trailing_empty = TRUE])
         IN  IF r.item.val # <<>> THEN r
             ELSE IF r.st.finished THEN [item |-> None, st |-> r.st]
             ELSE SplitInternal_back_search(s, pat, inclusive, r.st)
    ELSE SplitInternal_back_search(s, pat, inclusive, st)

\* The map of str::Lines: drop the final "\n", and a "\r" before it.
LinesMap(line) ==
    IF line # <<>> /\ line[Len(line)] = 10
    THEN LET l1 == Slice(line, 0, Len(line) - 1)
         IN  IF l1 # <<>> /\ l1[Len(l1)] = 13
             THEN Slice(l1, 0, Len(l1) - 1)
             ELSE l1
    ELSE line

\* A line split that keeps the empty piece after a final "\n", as
\* split('\n') does.
str_lines_with_trailing_empty(s) == SplitInternal_new(s, TRUE)

\* str::lines and <str::Lines as Iterator>::next / ::next_back.
str_lines(s) == SplitInternal_new(s, FALSE)

Lines_next(s, st) ==
    LET r == SplitInternal_next(s, "newline", TRUE, st)
    IN  [item |-> IF r.item.tag = "Some" THEN Some(LinesMap(r.item.val)) ELSE None,
         st |-> r.st]

Lines_next_back(s, st) ==
    LET r == SplitInternal_next_back(s, "newline", TRUE, st)
    IN  [item |-> IF r.item.tag = "Some" THEN Some(LinesMap(r.item.val)) ELSE None,
         st |-> r.st]

\* str::split_whitespace and its next / next_back: the non-empty pieces of
\* split(char::is_whitespace).
str_split_whitespace(s) == SplitInternal_new(s, TRUE)

RECURSIVE SplitWhitespace_next(_, _)
SplitWhitespace_next(s, st) ==
    LET r == SplitInternal_next(s, "whitespace", FALSE, st)
    IN  IF r.item.tag = "Some" /\ r.item.val = <<>>
        THEN SplitWhitespace_next(s, r.st)
        ELSE r

RECURSIVE SplitWhitespace_next_back(_, _)
SplitWhitespace_next_back(s, st) ==
    LET r == SplitInternal_next_back(s, "whitespace", FALSE, st)
    IN  IF r.item.tag = "Some" /\ r.item.val = <<>>
        THEN SplitWhitespace_next_back(s, r.st)
        ELSE r


\* The (lower, upper) pair Iterator::size_hint returns.
SizeHint(lower, upper) == [tag |-> "size_hint", lower |-> lower, upper |-> upper]

\* Iterator::size_hint as the trait provides it when an iterator defines
\* none of its own: (0, None).
Iterator_size_hint_default == SizeHint(0, None)

\* <str::Chars as Iterator>::size_hint, also that of str::CharIndices: of
\* len undecoded bytes, at least a quarter and at most all are chars.
Chars_size_hint(c) ==
    LET n == c.back - c.front
    IN  SizeHint((n + 3) \div 4, Some(n))

\* <Filter<I, P> as Iterator>::size_hint: nothing is promised, the upper
\* bound is that of the filtered iterator.
Filter_size_hint(inner) == SizeHint(0, inner.upper)

\* <str::Lines as Iterator>::size_hint: that of the mapped split, which
\* defines none.
Lines_size_hint(st) == Iterator_size_hint_default

\* <str::SplitWhitespace as Iterator>::size_hint: that of the filter over
\* the split, which defines none.
SplitWhitespace_size_hint(st) == Filter_size_hint(Iterator_size_hint_default)

\* ----------------------------------------------------- collaborator types

\* FromSourceError::new and FromSourceError::into_source.
FromSourceError_new(source) == [source |-> source]

into_source(err) == err.source

\* SoftAsciiString::from_unchecked: the owned buffer, built without a check.
SoftAsciiString_from_unchecked(string) == [tag |-> "SoftAsciiString", bytes |-> string]

\* SoftAsciiChar::from_unchecked: the char, seen as a SoftAsciiChar.
SoftAsciiChar_from_unchecked(ch) == [tag |-> "SoftAsciiChar", ch |-> ch]

\* A call that returns nothing the model looks at, and a returned bool,
\* usize or byte slice.
Unit == [tag |-> "unit"]

Bool(b) == [tag |-> "bool", val |-> b]

Usize(n) == [tag |-> "usize", val |-> n]

Bytes(s) == [tag |-> "bytes", val |-> s]

\* Result<&SoftAsciiStr, FromSourceError<&str>>.
Ok(v) == [tag |-> "Ok", val |-> v]

Err(e) == [tag |-> "Err", err |-> e]

\* ------------------------------------------------------------ SoftAsciiStr

\* A constructor that drops the bytes outside US-ASCII instead of keeping
\* the text as it is.
from_unchecked_sanitising(s) ==
    [tag |-> "SoftAsciiStr", bytes |-> SelectSeq(s, LAMBDA b : b < 128)]

\* SoftAsciiStr::from_unchecked: the same bytes, seen as a SoftAsciiStr.
from_unchecked(s) == [tag |-> "SoftAsciiStr", bytes |-> s]

\* SoftAsciiStr::as_str / as_bytes: the wrapped bytes.
as_str(v) == v.bytes

\* A checked constructor that has lost its check.
from_str_without_check(source) == Ok(from_unchecked(source))

\* SoftAsciiStr::from_str.
from_str(source) ==
    IF is_ascii(source)
    THEN Ok(from_unchecked(source))
    ELSE Err(FromSourceError_new(source))

\* A revalidation that trusts the check made at construction.
revalidate_trusting(self) == Ok(self)

\* SoftAsciiStr::revalidate_soft_constraint.
revalidate_soft_constraint(self) ==
    IF is_ascii(as_str(self))
    THEN Ok(self)
    ELSE Err(FromSourceError_new(as_str(self)))


\* A split_at that hands the two halves back in the wrong order.
split_at_swapped(self, mid) ==
    LET native == str_split_at(as_str(self), mid)
    IN  IF native.tag = "panic" THEN Panic
        ELSE [tag |-> "pair",
              left |-> from_unchecked(native.right),
              right |-> from_unchecked(native.left)]

\* SoftAsciiStr::split_at.
split_at(self, mid) ==
    LET native == str_split_at(as_str(self), mid)
    IN  IF native.tag = "panic" THEN Panic
        ELSE [tag |-> "pair",
              left |-> from_unchecked(native.left),
              right |-> from_unchecked(native.right)]

\* impl_index!: Index<Range>, Index<RangeFrom>, Index<RangeTo>, Index<RangeFull>.
ReWrap(native) ==
    IF native.tag = "panic" THEN Panic ELSE from_unchecked(native.bytes)

index_Range(self, start, end) == ReWrap(str_index_range(as_str(self), start, end))

index_RangeFrom(self, start) == ReWrap(str_index_range_from(as_str(self), start))

\* An index that clamps its offset to the buffer instead of delegating the
\* boundary check.
index_RangeTo_clamping(self, end) ==
    from_unchecked(Slice(as_str(self), 0, IF end > Len(as_str(self)) THEN Len(as_str(self)) ELSE end))

index_RangeTo(self, end) == ReWrap(str_index_range_to(as_str(self), end))

index_RangeFull(self) == from_unchecked(as_str(self))

\* impl_wrap_returning_str!: the trim family.
trim(self) == from_unchecked(str_trim(as_str(self)))

trim_start(self) == from_unchecked(str_trim_start(as_str(self)))

trim_end(self) == from_unchecked(str_trim_end(as_str(self)))

trim_left(self) == from_unchecked(str_trim_start(as_str(self)))

trim_right(self) == from_unchecked(str_trim_end(as_str(self)))

\* impl_wrap_returning_string!: to_lowercase, to_uppercase, repeat.
to_lowercase(self) == SoftAsciiString_from_unchecked(str_to_lowercase(as_str(self)))

to_uppercase(self) == SoftAsciiString_from_unchecked(str_to_uppercase(as_str(self)))

repeat(self, n) == SoftAsciiString_from_unchecked(str_repeat(as_str(self), n))

\* A to_owned that goes through a checked constructor of the owned type.
to_owned_checked(self) ==
    IF is_ascii(as_str(self))
    THEN SoftAsciiString_from_unchecked(as_str(self))
    ELSE Err(FromSourceError_new(as_str(self)))

\* <SoftAsciiStr as ToOwned>::to_owned.
to_owned(self) == SoftAsciiString_from_unchecked(as_str(self))

\* SoftAsciiStr::into_boxed_str and SoftAsciiStr::into_soft_ascii_string.
into_boxed_str(self) == as_str(self)

into_soft_ascii_string(self) == SoftAsciiString_from_unchecked(into_boxed_str(self))

\* impl_wrapping!: len, is_empty, is_char_boundary, is_ascii, as_bytes.
len(self) == Len(as_str(self))

is_empty(self) == Len(as_str(self)) = 0

SoftAsciiStr_is_char_boundary(self, index) == is_char_boundary(as_str(self), index)

SoftAsciiStr_is_ascii(self) == is_ascii(as_str(self))

as_bytes(self) == as_str(self)

\* ------------------------------------------------------- iterator adapters

\* .map(SoftAsciiStr::from_unchecked) and .map(SoftAsciiChar::from_unchecked)
\* on the Option the native iterator returns.
MapSoftAsciiStr(o) ==
    IF o.tag = "Some" THEN Some(from_unchecked(o.val)) ELSE None

MapSoftAsciiChar(o) ==
    IF o.tag = "Some" THEN Some(SoftAsciiChar_from_unchecked(o.val)) ELSE None

\* SoftAsciiChars: From<&SoftAsciiStr>, next, next_back.
SoftAsciiChars_from(self) == [kind |-> "chars", inner |-> str_chars(as_str(self))]

SoftAsciiChars_next(self, i) ==
    LET r == Chars_next(as_str(self), i.inner)
    IN  [item |-> MapSoftAsciiChar(r.item),
         st |-> [i EXCEPT !.inner = r.st]]

SoftAsciiChars_next_back(self, i) ==
    LET r == Chars_next_back(as_str(self), i.inner)
    IN  [item |-> MapSoftAsciiChar(r.item),
         st |-> [i EXCEPT !.inner = r.st]]

\* SoftAsciiCharIndices: From<&SoftAsciiStr>, next, next_back.
SoftAsciiCharIndices_from(self) ==
    [kind |-> "char_indices", inner |-> str_chars(as_str(self))]

IndexedChar(idx, o) ==
    IF o.tag = "Some"
    THEN Some([idx |-> idx, ch |-> SoftAsciiChar_from_unchecked(o.val)])
    ELSE None

SoftAsciiCharIndices_next(self, i) ==
    LET r == Chars_next(as_str(self), i.inner)
    IN  [item |-> IndexedChar(r.idx, r.item), st |-> [i EXCEPT !.inner = r.st]]

SoftAsciiCharIndices_next_back(self, i) ==
    LET r == Chars_next_back(as_str(self), i.inner)
    IN  [item |-> IndexedChar(r.idx, r.item), st |-> [i EXCEPT !.inner = r.st]]

\* SoftAsciiLines: From<&SoftAsciiStr>, next, next_back.
SoftAsciiLines_from(self) == [kind |-> "lines", inner |-> str_lines(as_str(self))]

SoftAsciiLines_next(self, i) ==
    LET r == Lines_next(as_str(self), i.inner)
    IN  [item |-> MapSoftAsciiStr(r.item),
         st |-> [i EXCEPT !.inner = r.st]]

SoftAsciiLines_next_back(self, i) ==
    LET r == Lines_next_back(as_str(self), i.inner)
    IN  [item |-> MapSoftAsciiStr(r.item),
         st |-> [i EXCEPT !.inner = r.st]]

\* SoftAsciiSplitWhitespace: From<&SoftAsciiStr>, next, next_back.
SoftAsciiSplitWhitespace_from(self) ==
    [kind |-> "split_whitespace", inner |-> str_split_whitespace(as_str(self))]

SoftAsciiSplitWhitespace_next(self, i) ==
    LET r == SplitWhitespace_next(as_str(self), i.inner)
    IN  [item |-> MapSoftAsciiStr(r.item),
         st |-> [i EXCEPT !.inner = r.st]]

SoftAsciiSplitWhitespace_next_back(self, i) ==
    LET r == SplitWhitespace_next_back(as_str(self), i.inner)
    IN  [item |-> MapSoftAsciiStr(r.item),
         st |-> [i EXCEPT !.inner = r.st]]


\* A SoftAsciiChars without a size_hint of its own.
SoftAsciiChars_size_hint_missing(i) == Iterator_size_hint_default

\* <SoftAsciiChars as Iterator>::size_hint.
SoftAsciiChars_size_hint(i) == Chars_size_hint(i.inner)

\* <SoftAsciiCharIndices as Iterator>::size_hint.
SoftAsciiCharIndices_size_hint(i) == Chars_size_hint(i.inner)

\* <SoftAsciiLines as Iterator>::size_hint.
SoftAsciiLines_size_hint(i) == Lines_size_hint(i.inner)

\* impl Iterator for SoftAsciiSplitWhitespace defines next only: its
\* size_hint is the trait's.
SoftAsciiSplitWhitespace_size_hint(i) == Iterator_size_hint_default

\* ------------------------------------------------------------- PartialEq

\* <str as PartialEq>::eq: the same length and the same bytes.
str_eq(a, b) == Len(a) = Len(b) /\ \A i \in 1..Len(a) : a[i] = b[i]

\* #[derive(PartialEq)] on SoftAsciiStr(str): the fields are compared.
SoftAsciiStr_eq(self, other) == str_eq(self.bytes, other.bytes)

\* The peers hold their text as bytes; a SoftAsciiString or a
\* Cow<SoftAsciiStr> derefs to the SoftAsciiStr over them.
Deref(peer) == from_unchecked(peer)

\* impl PartialEq<SoftAsciiString> for SoftAsciiStr, for &SoftAsciiStr.
eq_SoftAsciiStr_SoftAsciiString(self, other) == SoftAsciiStr_eq(self, Deref(other))

eq_RefSoftAsciiStr_SoftAsciiString(self, other) ==
    eq_SoftAsciiStr_SoftAsciiString(self, other)

\* impl PartialEq<SoftAsciiStr> for String and the three other String forms.
eq_String_SoftAsciiStr(self, other) == str_eq(self, as_str(other))

eq_SoftAsciiStr_String(self, other) == str_eq(as_str(self), other)

eq_String_RefSoftAsciiStr(self, other) == str_eq(self, as_str(other))

eq_RefSoftAsciiStr_String(self, other) == str_eq(as_str(self), other)

\* impl PartialEq<SoftAsciiStr> for str, impl PartialEq<str> for SoftAsciiStr.
eq_str_SoftAsciiStr(self, other) == str_eq(self, as_str(other))

\* A comparison by str::eq_ignore_ascii_case instead of ==.
eq_SoftAsciiStr_str_ignoring_case(self, other) ==
    /\ Len(as_str(self)) = Len(other)
    /\ \A i \in 1..Len(other) :
          (IF as_str(self)[i] \in 65..90 THEN as_str(self)[i] + 32 ELSE as_str(self)[i])
              = (IF other[i] \in 65..90 THEN other[i] + 32 ELSE other[i])

eq_SoftAsciiStr_str(self, other) == str_eq(as_str(self), other)

\* The four Cow<SoftAsciiStr> forms.
eq_CowSoft_SoftAsciiStr(self, other) == str_eq(as_str(Deref(self)), as_str(other))

eq_SoftAsciiStr_CowSoft(self, other) == str_eq(as_str(self), as_str(Deref(other)))

eq_CowSoft_RefSoftAsciiStr(self, other) == str_eq(as_str(Deref(self)), as_str(other))

eq_RefSoftAsciiStr_CowSoft(self, other) == str_eq(as_str(self), as_str(Deref(other)))

\* The four Cow<str> forms.
eq_CowStr_SoftAsciiStr(self, other) == str_eq(self, as_str(other))

eq_SoftAsciiStr_CowStr(self, other) == str_eq(as_str(self), other)

eq_CowStr_RefSoftAsciiStr(self, other) == str_eq(self, as_str(other))

eq_RefSoftAsciiStr_CowStr(self, other) == str_eq(as_str(self), other)

\* The four OsString forms and the two OsStr forms: str::eq on the OS text.
eq_OsString_SoftAsciiStr(self, other) == str_eq(as_str(other), self)

eq_SoftAsciiStr_OsString(self, other) == str_eq(as_str(self), other)

eq_OsString_RefSoftAsciiStr(self, other) == str_eq(as_str(other), self)

eq_RefSoftAsciiStr_OsString(self, other) == str_eq(as_str(self), other)

eq_OsStr_SoftAsciiStr(self, other) == str_eq(as_str(other), self)

eq_SoftAsciiStr_OsStr(self, other) == str_eq(as_str(self), other)


\* ------------------------------------------------------------------ state

NoIter == [kind |-> "none"]

\* A fresh adapter in the caller's hands, with the record of what it has
\* yielded from the front and from the back so far.
Fresh(i) == [kind |-> i.kind, inner |-> i.inner, front |-> <<>>, back |-> <<>>]

\* The adapter after a step that returned r.
Stepped(r, fromBack) ==
    [kind |-> r.st.kind, inner |-> r.st.inner,
     front |-> IF ~fromBack /\ r.item.tag = "Some"
               THEN Append(it.front, r.item.val) ELSE it.front,
     back |-> IF fromBack /\ r.item.tag = "Some"
              THEN Append(it.back, r.item.val) ELSE it.back]

\* The wrapper the caller's handle designates: it aliases the buffer.
Self == from_unchecked(text)

HasView == view # "none"

Init ==
    /\ text \in Texts
    /\ view = "none"
    /\ res = [op |-> "none", out |-> Unit]
    /\ it = NoIter

\* let v = SoftAsciiStr::from_str(&text)
FromStr ==
    /\ res' = [op |-> "from_str", out |-> from_str(text)]
    /\ view' = IF from_str(text).tag = "Ok" THEN "shared" ELSE "none"
    /\ it' = NoIter
    /\ UNCHANGED text

\* let v = SoftAsciiStr::from_unchecked(&text)
FromUnchecked ==
    /\ res' = [op |-> "from_unchecked", out |-> from_unchecked(text)]
    /\ view' = "shared"
    /\ it' = NoIter
    /\ UNCHANGED text

\* let v = SoftAsciiStr::from_unchecked_mut(&mut text)
FromUncheckedMut ==
    /\ res' = [op |-> "from_unchecked_mut", out |-> from_unchecked(text)]
    /\ view' = "mut"
    /\ it' = NoIter
    /\ UNCHANGED text

\* v.revalidate_soft_constraint()
RevalidateSoftConstraint ==
    /\ HasView
    /\ res' = [op |-> "revalidate_soft_constraint",
               out |-> revalidate_soft_constraint(Self)]
    /\ it' = NoIter
    /\ UNCHANGED <<text, view>>

\* A write through v.inner_str_mut(): a &mut str keeps its length and stays
\* valid UTF-8, and every borrow taken before the write has ended.
InnerStrMutWrite ==
    /\ view \in {"mut", "boxed"}
    /\ \E t \in Texts :
        /\ Len(t) = Len(text)
        /\ t # text
        /\ text' = t
    /\ res' = [op |-> "inner_str_mut", out |-> Unit]
    /\ it' = NoIter
    /\ UNCHANGED view

\* let v = SoftAsciiStr::from_boxed_str(text.into_boxed_str())
FromBoxedStr ==
    /\ res' = [op |-> "from_boxed_str", out |-> from_unchecked(text)]
    /\ view' = "boxed"
    /\ it' = NoIter
    /\ UNCHANGED text

\* v.into_soft_ascii_string(): consumes the box.
IntoSoftAsciiString ==
    /\ view = "boxed"
    /\ res' = [op |-> "into_soft_ascii_string", out |-> into_soft_ascii_string(Self)]
    /\ view' = "none"
    /\ it' = NoIter
    /\ UNCHANGED text

\* v.split_at(mid)
SplitAt ==
    /\ HasView
    /\ \E mid \in 0..(Len(text) + 1) :
        res' = [op |-> "split_at", mid |-> mid, out |-> split_at(Self, mid)]
    /\ it' = NoIter
    /\ UNCHANGED <<text, view>>

\* &v[start..end]
IndexRange ==
    /\ HasView
    /\ \E start \in 0..(Len(text) + 1), end \in 0..(Len(text) + 1) :
        res' = [op |-> "index_Range", start |-> start, end |-> end,
                out |-> index_Range(Self, start, end)]
    /\ it' = NoIter
    /\ UNCHANGED <<text, view>>

\* &v[start..]
IndexRangeFrom ==
    /\ HasView
    /\ \E start \in 0..(Len(text) + 1) :
        res' = [op |-> "index_RangeFrom", start |-> start,
                out |-> index_RangeFrom(Self, start)]
    /\ it' = NoIter
    /\ UNCHANGED <<text, view>>

\* &v[..end]
IndexRangeTo ==
    /\ HasView
    /\ \E end \in 0..(Len(text) + 1) :
        res' = [op |-> "index_RangeTo", end |-> end,
                out |-> index_RangeTo(Self, end)]
    /\ it' = NoIter
    /\ UNCHANGED <<text, view>>

\* &v[..]
IndexRangeFull ==
    /\ HasView
    /\ res' = [op |-> "index_RangeFull", out |-> index_RangeFull(Self)]
    /\ it' = NoIter
    /\ UNCHANGED <<text, view>>

\* v.trim(), v.trim_start(), v.trim_end(), v.trim_left(), v.trim_right()
Trim ==
    /\ HasView
    /\ res' = [op |-> "trim", out |-> trim(Self)]
    /\ it' = NoIter
    /\ UNCHANGED <<text, view>>

TrimStart ==
    /\ HasView
    /\ res' = [op |-> "trim_start", out |-> trim_start(Self)]
    /\ it' = NoIter
    /\ UNCHANGED <<text, view>>

TrimEnd ==
    /\ HasView
    /\ res' = [op |-> "trim_end", out |-> trim_end(Self)]
    /\ it' = NoIter
    /\ UNCHANGED <<text, view>>

TrimLeft ==
    /\ HasView
    /\ res' = [op |-> "trim_left", out |-> trim_left(Self)]
    /\ it' = NoIter
    /\ UNCHANGED <<text, view>>

TrimRight ==
    /\ HasView
    /\ res' = [op |-> "trim_right", out |-> trim_right(Self)]
    /\ it' = NoIter
    /\ UNCHANGED <<text, view>>

\* v.to_lowercase(), v.to_uppercase(), v.repeat(n), v.to_owned()
ToLowercase ==
    /\ HasView
    /\ res' = [op |-> "to_lowercase", out |-> to_lowercase(Self)]
    /\ it' = NoIter
    /\ UNCHANGED <<text, view>>

ToUppercase ==
    /\ HasView
    /\ res' = [op |-> "to_uppercase", out |-> to_uppercase(Self)]
    /\ it' = NoIter
    /\ UNCHANGED <<text, view>>

Repeat ==
    /\ HasView
    /\ \E n \in 0..MaxRepeat :
        res' = [op |-> "repeat", n |-> n, out |-> repeat(Self, n)]
    /\ it' = NoIter
    /\ UNCHANGED <<text, view>>

ToOwned ==
    /\ HasView
    /\ res' = [op |-> "to_owned", out |-> to_owned(Self)]
    /\ it' = NoIter
    /\ UNCHANGED <<text, view>>

\* v.len(), v.is_empty(), v.is_char_boundary(index), v.is_ascii(), v.as_bytes()
LenOp ==
    /\ HasView
    /\ res' = [op |-> "len", out |-> Usize(len(Self))]
    /\ it' = NoIter
    /\ UNCHANGED <<text, view>>

IsEmpty ==
    /\ HasView
    /\ res' = [op |-> "is_empty", out |-> Bool(is_empty(Self))]
    /\ it' = NoIter
    /\ UNCHANGED <<text, view>>

IsCharBoundary ==
    /\ HasView
    /\ \E index \in 0..(Len(text) + 1) :
        res' = [op |-> "is_char_boundary", index |-> index,
                out |-> Bool(SoftAsciiStr_is_char_boundary(Self, index))]
    /\ it' = NoIter
    /\ UNCHANGED <<text, view>>

IsAscii ==
    /\ HasView
    /\ res' = [op |-> "is_ascii", out |-> Bool(SoftAsciiStr_is_ascii(Self))]
    /\ it' = NoIter
    /\ UNCHANGED <<text, view>>

AsBytes ==
    /\ HasView
    /\ res' = [op |-> "as_bytes", out |-> Bytes(as_bytes(Self))]
    /\ it' = NoIter
    /\ UNCHANGED <<text, view>>

\* let i = v.chars(); i.next(); i.next_back()
CharsNew ==
    /\ HasView
    /\ it' = Fresh(SoftAsciiChars_from(Self))
    /\ res' = [op |-> "chars", out |-> Unit]
    /\ UNCHANGED <<text, view>>

CharsNext ==
    /\ it.kind = "chars"
    /\ LET r == SoftAsciiChars_next(Self, it)
       IN  /\ it' = Stepped(r, FALSE)
           /\ res' = [op |-> "chars_next", out |-> r.item]
    /\ UNCHANGED <<text, view>>

CharsNextBack ==
    /\ it.kind = "chars"
    /\ LET r == SoftAsciiChars_next_back(Self, it)
       IN  /\ it' = Stepped(r, TRUE)
           /\ res' = [op |-> "chars_next_back", out |-> r.item]
    /\ UNCHANGED <<text, view>>

\* let i = v.char_indices(); i.next(); i.next_back()
CharIndicesNew ==
    /\ HasView
    /\ it' = Fresh(SoftAsciiCharIndices_from(Self))
    /\ res' = [op |-> "char_indices", out |-> Unit]
    /\ UNCHANGED <<text, view>>

CharIndicesNext ==
    /\ it.kind = "char_indices"
    /\ LET r == SoftAsciiCharIndices_next(Self, it)
       IN  /\ it' = Stepped(r, FALSE)
           /\ res' = [op |-> "char_indices_next", out |-> r.item]
    /\ UNCHANGED <<text, view>>

CharIndicesNextBack ==
    /\ it.kind = "char_indices"
    /\ LET r == SoftAsciiCharIndices_next_back(Self, it)
       IN  /\ it' = Stepped(r, TRUE)
           /\ res' = [op |-> "char_indices_next_back", out |-> r.item]
    /\ UNCHANGED <<text, view>>

\* let i = v.lines(); i.next(); i.next_back()
LinesNew ==
    /\ HasView
    /\ it' = Fresh(SoftAsciiLines_from(Self))
    /\ res' = [op |-> "lines", out |-> Unit]
    /\ UNCHANGED <<text, view>>

LinesNext ==
    /\ it.kind = "lines"
    /\ LET r == SoftAsciiLines_next(Self, it)
       IN  /\ it' = Stepped(r, FALSE)
           /\ res' = [op |-> "lines_next", out |-> r.item]
    /\ UNCHANGED <<text, view>>

LinesNextBack ==
    /\ it.kind = "lines"
    /\ LET r == SoftAsciiLines_next_back(Self, it)
       IN  /\ it' = Stepped(r, TRUE)
           /\ res' = [op |-> "lines_next_back", out |-> r.item]
    /\ UNCHANGED <<text, view>>

\* let i = v.split_whitespace(); i.next(); i.next_back()
SplitWhitespaceNew ==
    /\ HasView
    /\ it' = Fresh(SoftAsciiSplitWhitespace_from(Self))
    /\ res' = [op |-> "split_whitespace", out |-> Unit]
    /\ UNCHANGED <<text, view>>

SplitWhitespaceNext ==
    /\ it.kind = "split_whitespace"
    /\ LET r == SoftAsciiSplitWhitespace_next(Self, it)
       IN  /\ it' = Stepped(r, FALSE)
           /\ res' = [op |-> "split_whitespace_next", out |-> r.item]
    /\ UNCHANGED <<text, view>>

SplitWhitespaceNextBack ==
    /\ it.kind = "split_whitespace"
    /\ LET r == SoftAsciiSplitWhitespace_next_back(Self, it)
       IN  /\ it' = Stepped(r, TRUE)
           /\ res' = [op |-> "split_whitespace_next_back", out |-> r.item]
    /\ UNCHANGED <<text, view>>

\* i.size_hint(), for each of the four adapters; the adapter is only read.
CharsSizeHint ==
    /\ it.kind = "chars"
    /\ res' = [op |-> "chars_size_hint", out |-> SoftAsciiChars_size_hint(it)]
    /\ UNCHANGED <<text, view, it>>

CharIndicesSizeHint ==
    /\ it.kind = "char_indices"
    /\ res' = [op |-> "char_indices_size_hint",
               out |-> SoftAsciiCharIndices_size_hint(it)]
    /\ UNCHANGED <<text, view, it>>

LinesSizeHint ==
    /\ it.kind = "lines"
    /\ res' = [op |-> "lines_size_hint", out |-> SoftAsciiLines_size_hint(it)]
    /\ UNCHANGED <<text, view, it>>

SplitWhitespaceSizeHint ==
    /\ it.kind = "split_whitespace"
    /\ res' = [op |-> "split_whitespace_size_hint",
               out |-> SoftAsciiSplitWhitespace_size_hint(it)]
    /\ UNCHANGED <<text, view, it>>

\* The operand orders and reference forms the impls of a peer type cover.
AllForms == {"self_peer", "peer_self", "ref_peer", "peer_ref"}

\* v == w, for another view w.
EqSoftAsciiStr ==
    /\ HasView
    /\ \E other \in PeerTexts \cup {text} :
        res' = [op |-> "eq", peer |-> "SoftAsciiStr", other |-> other,
                out |-> Bool(SoftAsciiStr_eq(Self, from_unchecked(other)))]
    /\ it' = NoIter
    /\ UNCHANGED <<text, view>>

\* v == string, &v == string, for a SoftAsciiString.
EqSoftAsciiString ==
    /\ HasView
    /\ \E other \in PeerTexts \cup {text}, form \in {"self_peer", "ref_peer"} :
        res' = [op |-> "eq", peer |-> "SoftAsciiString", other |-> other,
                out |-> Bool(IF form = "self_peer"
                        THEN eq_SoftAsciiStr_SoftAsciiString(Self, other)
                        ELSE eq_RefSoftAsciiStr_SoftAsciiString(Self, other))]
    /\ it' = NoIter
    /\ UNCHANGED <<text, view>>

\* string == v, v == string, string == &v, &v == string, for a String.
EqString ==
    /\ HasView
    /\ \E other \in PeerTexts \cup {text}, form \in AllForms :
        res' = [op |-> "eq", peer |-> "String", other |-> other,
                out |-> Bool(CASE form = "peer_self" -> eq_String_SoftAsciiStr(other, Self)
                          [] form = "self_peer" -> eq_SoftAsciiStr_String(Self, other)
                          [] form = "peer_ref" -> eq_String_RefSoftAsciiStr(other, Self)
                          [] form = "ref_peer" -> eq_RefSoftAsciiStr_String(Self, other))]
    /\ it' = NoIter
    /\ UNCHANGED <<text, view>>

\* s == v, v == s, for a str.
EqStr ==
    /\ HasView
    /\ \E other \in PeerTexts \cup {text}, form \in {"peer_self", "self_peer"} :
        res' = [op |-> "eq", peer |-> "str", other |-> other,
                out |-> Bool(IF form = "peer_self"
                        THEN eq_str_SoftAsciiStr(other, Self)
                        ELSE eq_SoftAsciiStr_str(Self, other))]
    /\ it' = NoIter
    /\ UNCHANGED <<text, view>>

\* The four forms for a Cow<SoftAsciiStr>.
EqCowSoftAsciiStr ==
    /\ HasView
    /\ \E other \in PeerTexts \cup {text}, form \in AllForms :
        res' = [op |-> "eq", peer |-> "Cow<SoftAsciiStr>", other |-> other,
                out |-> Bool(CASE form = "peer_self" -> eq_CowSoft_SoftAsciiStr(other, Self)
                          [] form = "self_peer" -> eq_SoftAsciiStr_CowSoft(Self, other)
                          [] form = "peer_ref" -> eq_CowSoft_RefSoftAsciiStr(other, Self)
                          [] form = "ref_peer" -> eq_RefSoftAsciiStr_CowSoft(Self, other))]
    /\ it' = NoIter
    /\ UNCHANGED <<text, view>>

\* The four forms for a Cow<str>.
EqCowStr ==
    /\ HasView
    /\ \E other \in PeerTexts \cup {text}, form \in AllForms :
        res' = [op |-> "eq", peer |-> "Cow<str>", other |-> other,
                out |-> Bool(CASE form = "peer_self" -> eq_CowStr_SoftAsciiStr(other, Self)
                          [] form = "self_peer" -> eq_SoftAsciiStr_CowStr(Self, other)
                          [] form = "peer_ref" -> eq_CowStr_RefSoftAsciiStr(other, Self)
                          [] form = "ref_peer" -> eq_RefSoftAsciiStr_CowStr(Self, other))]
    /\ it' = NoIter
    /\ UNCHANGED <<text, view>>

\* The four forms for an OsString.
EqOsString ==
    /\ HasView
    /\ \E other \in PeerTexts \cup {text}, form \in AllForms :
        res' = [op |-> "eq", peer |-> "OsString", other |-> other,
                out |-> Bool(CASE form = "peer_self" -> eq_OsString_SoftAsciiStr(other, Self)
                          [] form = "self_peer" -> eq_SoftAsciiStr_OsString(Self, other)
                          [] form = "peer_ref" -> eq_OsString_RefSoftAsciiStr(other, Self)
                          [] form = "ref_peer" -> eq_RefSoftAsciiStr_OsString(Self, other))]
    /\ it' = NoIter
    /\ UNCHANGED <<text, view>>

\* os == v, v == os, for an OsStr.
EqOsStr ==
    /\ HasView
    /\ \E other \in PeerTexts \cup {text}, form \in {"peer_self", "self_peer"} :
        res' = [op |-> "eq", peer |-> "OsStr", other |-> other,
                out |-> Bool(IF form = "peer_self"
                        THEN eq_OsStr_SoftAsciiStr(other, Self)
                        ELSE eq_SoftAsciiStr_OsStr(Self, other))]
    /\ it' = NoIter
    /\ UNCHANGED <<text, view>>

Next ==
    \/ FromStr
    \/ FromUnchecked
    \/ FromUncheckedMut
    \/ FromBoxedStr
    \/ RevalidateSoftConstraint
    \/ InnerStrMutWrite
    \/ IntoSoftAsciiString
    \/ SplitAt
    \/ IndexRange
    \/ IndexRangeFrom
    \/ IndexRangeTo
    \/ IndexRangeFull
    \/ Trim
    \/ TrimStart
    \/ TrimEnd
    \/ TrimLeft
    \/ TrimRight
    \/ ToLowercase
    \/ ToUppercase
    \/ Repeat
    \/ ToOwned
    \/ LenOp
    \/ IsEmpty
    \/ IsCharBoundary
    \/ IsAscii
    \/ AsBytes
    \/ CharsNew
    \/ CharsNext
    \/ CharsNextBack
    \/ CharIndicesNew
    \/ CharIndicesNext
    \/ CharIndicesNextBack
    \/ LinesNew
    \/ LinesNext
    \/ LinesNextBack
    \/ SplitWhitespaceNew
    \/ SplitWhitespaceNext
    \/ SplitWhitespaceNextBack
    \/ CharsSizeHint
    \/ CharIndicesSizeHint
    \/ LinesSizeHint
    \/ SplitWhitespaceSizeHint
    \/ EqSoftAsciiStr
    \/ EqSoftAsciiString
    \/ EqString
    \/ EqStr
    \/ EqCowSoftAsciiStr
    \/ EqCowStr
    \/ EqOsString
    \/ EqOsStr

Spec == Init /\ [][Next]_vars

\* ----------------------------------------------------------------- claims

\* Every byte of s is in 0x00..0x7F / some byte of s is 0x80 or above.
AllBytesBelow128(s) == \A i \in DOMAIN s : s[i] \in 0..127

SomeByteFrom128(s) == \E i \in DOMAIN s : s[i] >= 128

\* C1: for every text whose bytes are all in 0x00..0x7F (control characters
\* and the empty text included), from_str returns Ok and the view it returns
\* exposes exactly the bytes of the input.
C1_CheckedConstructionAccepts ==
    (res.op = "from_str" /\ AllBytesBelow128(text))
        => /\ res.out.tag = "Ok"
           /\ res.out.val.tag = "SoftAsciiStr"
           /\ as_str(res.out.val) = text
           /\ as_bytes(res.out.val) = text
           /\ view = "shared"

\* from_str has accepted a text that holds a control character below 0x04.
C1_Witness ==
    /\ res.op = "from_str"
    /\ res.out.tag = "Ok"
    /\ \E i \in DOMAIN text : text[i] < 4

\* C2: for every text with a byte >= 0x80, from_str returns Err, the caller
\* gets no view, and into_source of the error is the input, byte for byte.
C2_CheckedConstructionRejects ==
    (res.op = "from_str" /\ SomeByteFrom128(text))
        => /\ res.out.tag = "Err"
           /\ view = "none"
           /\ into_source(res.out.err) = text

\* from_str has rejected a text that mixes ASCII and non-ASCII bytes.
C2_Witness ==
    /\ res.op = "from_str"
    /\ res.out.tag = "Err"
    /\ SomeByteFrom128(text)
    /\ \E i \in DOMAIN text : text[i] < 128

\* C3: revalidate_soft_constraint decides on the current bytes and leaves
\* them as they are: all bytes below 0x80 gives Ok with the same view, a byte
\* >= 0x80 gives Err whose into_source is the current content.
C3_Revalidation ==
    [][ res'.op = "revalidate_soft_constraint"
          => /\ text' = text
             /\ view' = view
             /\ AllBytesBelow128(text)
                  => /\ res'.out.tag = "Ok"
                     /\ as_str(res'.out.val) = text
             /\ SomeByteFrom128(text)
                  => /\ res'.out.tag = "Err"
                     /\ into_source(res'.out.err) = text ]_vars

\* Revalidation has failed on a view that was written through inner_str_mut
\* or made by from_unchecked_mut, and returns the non-ASCII content.
C3_Witness ==
    /\ res.op = "revalidate_soft_constraint"
    /\ res.out.tag = "Err"
    /\ view = "mut"
    /\ into_source(res.out.err) = text
    /\ SomeByteFrom128(text)

\* C4: from_unchecked never fails and never checks: its view exposes the
\* bytes of the input, ASCII or not; on a non-ASCII input a following
\* is_ascii() reports false and a following revalidate_soft_constraint fails
\* with the input as recovered content.
C4_UncheckedConstruction ==
    [][ /\ res'.op = "from_unchecked"
          => /\ res'.out.tag = "SoftAsciiStr"
             /\ as_str(res'.out) = text
             /\ text' = text
             /\ view' = "shared"
        /\ (res.op = "from_unchecked" /\ SomeByteFrom128(text))
          => /\ res'.op = "is_ascii" => res'.out = Bool(FALSE)
             /\ res'.op = "revalidate_soft_constraint"
                  => /\ res'.out.tag = "Err"
                     /\ into_source(res'.out.err) = as_str(res.out) ]_vars

\* "h" U+00E9 "llo" is held by a shared view, which only from_unchecked can
\* have made, and revalidation has failed on it.
C4_Witness ==
    /\ res.op = "revalidate_soft_constraint"
    /\ res.out.tag = "Err"
    /\ text = EncodeAll(<<104, 233, 108, 108, 111>>)
    /\ into_source(res.out.err) = text
    /\ view = "shared"

\* The tags a call's result can have when it neither checks the soft
\* constraint nor reports a violation of it.
UncheckedResultTags(op) ==
    CASE op \in {"from_unchecked", "from_unchecked_mut", "from_boxed_str",
                 "index_RangeFull", "trim", "trim_start", "trim_end",
                 "trim_left", "trim_right"} -> {"SoftAsciiStr"}
      [] op \in {"index_Range", "index_RangeFrom", "index_RangeTo"}
            -> {"SoftAsciiStr", "panic"}
      [] op = "split_at" -> {"pair", "panic"}
      [] op \in {"to_lowercase", "to_uppercase", "repeat", "to_owned",
                 "into_soft_ascii_string"} -> {"SoftAsciiString"}
      [] op \in {"chars_next", "chars_next_back", "char_indices_next",
                 "char_indices_next_back", "lines_next", "lines_next_back",
                 "split_whitespace_next", "split_whitespace_next_back"}
            -> {"Some", "None"}
      [] op \in {"eq", "is_ascii", "is_empty", "is_char_boundary"} -> {"bool"}
      [] op = "len" -> {"usize"}
      [] op = "as_bytes" -> {"bytes"}
      [] op \in {"chars_size_hint", "char_indices_size_hint",
                 "lines_size_hint", "split_whitespace_size_hint"}
            -> {"size_hint"}
      [] OTHER -> {"unit"}

\* The chars a forward traversal has yielded, as text.
YieldedChars(front) == EncodeAll([i \in DOMAIN front |-> front[i].ch])

\* C5: the constraint-violation error comes from from_str and
\* revalidate_soft_constraint only.  Every other call completes with its
\* ordinary result, also on a view whose content is not ASCII (made by
\* from_unchecked or written through inner_str_mut), and hands that content
\* on; revalidate_soft_constraint on such a view fails.
C5_OnlyConstructionAndRevalidationCheck ==
    /\ res.out.tag = "Err" => res.op \in {"from_str", "revalidate_soft_constraint"}
    /\ res.op \notin {"from_str", "revalidate_soft_constraint"}
          => res.out.tag \in UncheckedResultTags(res.op)
    /\ (view # "none" /\ SomeByteFrom128(text))
          => /\ res.op = "revalidate_soft_constraint" => res.out.tag = "Err"
             /\ res.op \in {"to_owned", "index_RangeFull"} => res.out.bytes = text
             /\ res.op = "as_bytes" => res.out.val = text
             /\ res.op = "is_ascii" => res.out.val = FALSE
             /\ (res.op = "repeat" /\ res.n = 1) => res.out.bytes = text
             /\ (res.op = "split_at" /\ res.out.tag = "pair")
                   => res.out.left.bytes \o res.out.right.bytes = text
             /\ (res.op = "chars_next" /\ res.out.tag = "None" /\ it.back = <<>>)
                   => YieldedChars(it.front) = text
    /\ (res.op = "into_soft_ascii_string" /\ SomeByteFrom128(text))
          => res.out.bytes = text

\* A view that can be written through holds non-ASCII content, and to_owned
\* has copied that content without complaint.
C5_Witness ==
    /\ view = "mut"
    /\ SomeByteFrom128(text)
    /\ res.op = "to_owned"
    /\ res.out.tag = "SoftAsciiString"
    /\ res.out.bytes = text

\* The byte offsets of s that are code-point boundaries: 0, and the offset
\* after each code point, the last of which is Len(s).
RECURSIVE BoundariesFrom(_, _)
BoundariesFrom(s, i) ==
    IF i >= Len(s) THEN {i}
    ELSE {i} \cup BoundariesFrom(s, i + (IF s[i + 1] < 128 THEN 1
                                          ELSE IF s[i + 1] < 224 THEN 2
                                          ELSE IF s[i + 1] < 240 THEN 3 ELSE 4))

CodePointBoundaries(s) == BoundariesFrom(s, 0)

\* C6: for every view and every offset mid in 0..len on a code-point
\* boundary, split_at(mid) returns two views, the left one of exactly mid
\* bytes, whose bytes one after the other are the bytes of the original,
\* and the original is unchanged.
C6_SplitAtConcatenation ==
    [][ (res'.op = "split_at" /\ res'.mid \in CodePointBoundaries(text))
          => /\ res'.out.tag = "pair"
             /\ res'.out.left.tag = "SoftAsciiStr"
             /\ res'.out.right.tag = "SoftAsciiStr"
             /\ Len(as_str(res'.out.left)) = res'.mid
             /\ as_str(res'.out.left) \o as_str(res'.out.right) = text
             /\ text' = text
             /\ view' = view ]_vars

\* split_at has cut a text with a multi-byte code point strictly inside it,
\* leaving bytes on both sides.
C6_Witness ==
    /\ res.op = "split_at"
    /\ res.out.tag = "pair"
    /\ res.mid > 0
    /\ res.mid < Len(text)
    /\ SomeByteFrom128(text)
    /\ as_str(res.out.left) # <<>>
    /\ as_str(res.out.right) # <<>>

\* The slicing calls and the offsets each was given.
SlicingOps == {"split_at", "index_Range", "index_RangeFrom", "index_RangeTo"}

SliceOffsets(r) ==
    CASE r.op = "split_at" -> {r.mid}
      [] r.op = "index_Range" -> {r.start, r.end}
      [] r.op = "index_RangeFrom" -> {r.start}
      [] r.op = "index_RangeTo" -> {r.end}

\* C7 as stated: split_at and the Range / RangeFrom / RangeTo index abort
\* (no view, no error value) when an offset is off the code-point
\* boundaries of the view, and never abort when every offset is on one.
C7_AbortIffOffBoundary ==
    res.op \in SlicingOps
        => (res.out.tag = "panic"
              <=> \E o \in SliceOffsets(res) : o \notin CodePointBoundaries(text))

\* C7 as amended: an offset off the boundaries (inside a code point or past
\* the end) always aborts; with every offset on a boundary split_at,
\* RangeFrom and RangeTo never abort, and Range start..end aborts exactly
\* when start > end.
C7_AbortIffOffBoundaryOrReversed ==
    res.op \in SlicingOps
        => /\ res.out.tag \in {"panic", "pair", "SoftAsciiStr"}
           /\ res.out.tag = "panic"
                <=> \/ \E o \in SliceOffsets(res) : o \notin CodePointBoundaries(text)
                    \/ res.op = "index_Range" /\ res.start > res.end

\* An index ..end has aborted on an offset inside a multi-byte code point.
C7_Witness ==
    /\ res.op = "index_RangeTo"
    /\ res.out.tag = "panic"
    /\ res.end < Len(text)

\* C8: on a view whose bytes are all ASCII, to_lowercase and to_uppercase
\* return an owned soft-constrained buffer with no byte >= 0x80 and of the
\* length of the input.
C8_CaseConversionStaysAscii ==
    (res.op \in {"to_lowercase", "to_uppercase"} /\ AllBytesBelow128(text))
        => /\ res.out.tag = "SoftAsciiString"
           /\ AllBytesBelow128(res.out.bytes)
           /\ Len(res.out.bytes) = Len(text)

\* to_uppercase has changed a letter of an all-ASCII view.
C8_Witness ==
    /\ res.op = "to_uppercase"
    /\ AllBytesBelow128(text)
    /\ res.out.bytes # text
    /\ Len(text) > 1

\* C9: every equality between a view and a peer (another view, the owned
\* counterpart, str, String, a Cow of either, OsStr, OsString), in either
\* operand order and by value or by reference, is true exactly when the two
\* contents are the same bytes, whether or not either side is ASCII.
C9_EqualityIsByteEquality ==
    res.op = "eq"
        => /\ res.out.tag = "bool"
           /\ res.out.val = (text = res.other)

\* A view with non-ASCII content has compared equal to an OsString.
C9_Witness ==
    /\ res.op = "eq"
    /\ res.peer = "OsString"
    /\ res.out.val = TRUE
    /\ SomeByteFrom128(text)
    /\ res.other = text

\* The lines of a text: cut after every "\n", each line without its "\n" or
\* "\r\n", and no line for what follows a final "\n".
RECURSIVE LinesOf(_)
LinesOf(s) ==
    IF s = <<>> THEN <<>>
    ELSE LET nl == {i \in 1..Len(s) : s[i] = 10}
         IN  IF nl = {} THEN <<s>>
             ELSE LET k == CHOOSE i \in nl : \A j \in nl : i <= j
                      line == SubSeq(s, 1, k - 1)
                      bare == IF line # <<>> /\ line[Len(line)] = 13
                              THEN SubSeq(line, 1, Len(line) - 1)
                              ELSE line
                  IN  <<bare>> \o LinesOf(SubSeq(s, k + 1, Len(s)))

\* "a\nb\nc" and its three lines as views.
TextABC == <<97, 10, 98, 10, 99>>

ViewsABC ==
    << [tag |-> "SoftAsciiStr", bytes |-> <<97>>],
       [tag |-> "SoftAsciiStr", bytes |-> <<98>>],
       [tag |-> "SoftAsciiStr", bytes |-> <<99>>] >>

\* C10: line iteration yields, in order, one re-wrapped view per line of
\* the text, each without its terminator, no trailing empty line, and then
\* ends; "a\nb\nc" yields "a", "b", "c" and then None.  With steps from the
\* back mixed in, what was yielded from the front is the start of that
\* sequence and what was yielded from the back its end.
C10_LinesYieldsEachLine ==
    it.kind = "lines"
        => LET lines == LinesOf(text)
               n == Len(lines)
               f == Len(it.front)
               b == Len(it.back)
           IN  /\ f + b <= n
               /\ \A i \in 1..f : it.front[i] = [tag |-> "SoftAsciiStr", bytes |-> lines[i]]
               /\ \A j \in 1..b :
                     it.back[j] = [tag |-> "SoftAsciiStr", bytes |-> lines[n - j + 1]]
               /\ (res.op \in {"lines_next", "lines_next_back"} /\ res.out.tag = "None")
                     => f + b = n
               /\ (res.op = "lines_next" /\ res.out.tag = "Some")
                     => res.out.val = it.front[f]
               /\ (text = TextABC /\ res.op = "lines_next" /\ res.out.tag = "None"
                       /\ b = 0)
                     => it.front = ViewsABC

\* The forward traversal of "a\nb\nc" has yielded its three lines and then
\* returned None.
C10_Witness ==
    /\ it.kind = "lines"
    /\ text = TextABC
    /\ res.op = "lines_next"
    /\ res.out.tag = "None"
    /\ it.front = ViewsABC
    /\ it.back = <<>>

\* The bytes of the chars a traversal has yielded so far, from both ends.
RECURSIVE YieldedBytes(_, _)
YieldedBytes(kind, items) ==
    IF items = <<>> THEN 0
    ELSE LET ch == IF kind = "chars" THEN Head(items).ch ELSE Head(items).ch.ch
         IN  (IF ch < 128 THEN 1 ELSE IF ch < 2048 THEN 2
              ELSE IF ch < 65536 THEN 3 ELSE 4) + YieldedBytes(kind, Tail(items))

\* What the native iterator over the same text reports at the same point
\* of the traversal: for chars and char_indices, of the n bytes not yet
\* yielded, between ceil(n / 4) and n chars; for lines and split_whitespace
\* (0, None) throughout.
NativeSizeHint(kind) ==
    IF kind \in {"chars", "char_indices"}
    THEN LET n == Len(text) - YieldedBytes(kind, it.front)
                           - YieldedBytes(kind, it.back)
         IN  [tag |-> "size_hint",
              lower |-> (n + 3) \div 4,
              upper |-> [tag |-> "Some", val |-> n]]
    ELSE [tag |-> "size_hint", lower |-> 0, upper |-> [tag |-> "None"]]

\* C11: for chars, char_indices, lines and split_whitespace alike, after
\* any number of next / next_back steps, the adapter's size_hint is the
\* size_hint of the native iterator it wraps.
C11_SizeHintIsNative ==
    /\ res.op = "chars_size_hint"
          => it.kind = "chars" /\ res.out = NativeSizeHint("chars")
    /\ res.op = "char_indices_size_hint"
          => it.kind = "char_indices" /\ res.out = NativeSizeHint("char_indices")
    /\ res.op = "lines_size_hint"
          => it.kind = "lines" /\ res.out = NativeSizeHint("lines")
    /\ res.op = "split_whitespace_size_hint"
          => /\ it.kind = "split_whitespace"
             /\ res.out = NativeSizeHint("split_whitespace")
             /\ res.out = SplitWhitespace_size_hint(it.inner)

\* size_hint was asked of a chars adapter in mid-traversal of a text with a
\* multi-byte char: something was yielded from each end and something is
\* left.
C11_Witness ==
    /\ res.op = "chars_size_hint"
    /\ it.front # <<>>
    /\ it.back # <<>>
    /\ res.out.lower > 0
    /\ res.out.upper.val > res.out.lower
    /\ SomeByteFrom128(text)

====
